---- MODULE Spec2Model ----
(***************************************************************************)
(* Model of deployar's asynchronous command-execution subsystem:           *)
(* Executor (executor.go), Storage's SaveExecutions and LoadExecutions,    *)
(* and the part of the handlers that reads what Executor returns.          *)
(*                                                                         *)
(* Every request is served on its own goroutine (a "caller"), and every    *)
(* Execute starts one more goroutine (runCommand).  Executor takes no lock *)
(* of its own; the only lock is Storage.executionsMutex, held inside       *)
(* SaveExecutions.  A statement that touches shared memory is one step;    *)
(* an agent whose pc stands at a statement is executing it, so two agents  *)
(* standing at conflicting statements are unordered accesses (a data       *)
(* race).  The outcomes modelled for a race are the two serial orders of   *)
(* the statements' effects and the abort of the process (Restart, which    *)
(* may happen in any state).                                               *)
(***************************************************************************)
EXTENDS Integers, Sequences, FiniteSets, TLC

\* ------------------------------------------------------------ bounds
MaxExec == 2       \* executions submitted over the whole run
MaxCallers == 2    \* requests served concurrently
MaxRequests == 3   \* requests served over the whole run
MaxRestart == 1    \* process restarts
LiveRequests == 2  \* requests served in the runs checked for liveness
MaxList == 3       \* records in the mappings the listings are checked for
MaxLimit == 4      \* the largest limit GetRecentExecutions is called with

Callers == 1..MaxCallers
Addrs == 1..MaxExec
Agents == 1..(MaxCallers + MaxExec)
\* the agent running runCommand(execution) for the record at address a
G(a) == MaxCallers + a

\* ------------------------------------------------------------ strings
\* Workdir and Command are sequences of tokens; a token is a word or one
\* white-space character.  Every other string is a TLA+ string.
IsSpace(c) == c \in {" ", "\t", "\n", "\r"}

RECURSIVE TrimLeft(_)
TrimLeft(s) ==
    IF s = <<>> THEN s
    ELSE IF IsSpace(Head(s)) THEN TrimLeft(Tail(s)) ELSE s

RECURSIVE TrimRight(_)
TrimRight(s) ==
    IF s = <<>> THEN s
    ELSE IF IsSpace(s[Len(s)]) THEN TrimRight(SubSeq(s, 1, Len(s) - 1)) ELSE s

TrimSpace(s) == TrimRight(TrimLeft(s))

ValidateCommand(workdir, command) ==
    IF TrimSpace(command) = <<>> THEN "command cannot be empty"
    ELSE IF TrimSpace(workdir) = <<>> THEN "workdir cannot be empty"
    ELSE "nil"

\* ------------------------------------------------------------ records
ZeroTime == 0
Terminal == {"success", "failed"}

\* Duration.String() of a span of d clock units
DurationString(d) == ToString(d) \o "s"

NewExecution(id, workdir, command, commandID, commandName, username, now) ==
    [ID |-> id, CommandID |-> commandID, Name |-> commandName,
     Workdir |-> workdir, Command |-> command, Status |-> "running",
     Output |-> "", ExitCode |-> 0, ExecutedBy |-> username,
     StartedAt |-> now, EndedAt |-> ZeroTime, Duration |-> ""]

\* the slot of the heap that holds no Execution (no uuid is 0)
NoExecution == NewExecution(0, <<>>, <<>>, "", "", "", ZeroTime)

\* the arguments Execute is called with
Submissions ==
    { [workdir |-> <<"/srv">>, command |-> <<"echo", " ", "hello">>,
       commandID |-> "c1", commandName |-> "deploy", username |-> "alice"],
      [workdir |-> <<"/srv">>, command |-> <<"build", ";", "exit", " ", "7">>,
       commandID |-> "", commandName |-> "", username |-> "alice"],
      [workdir |-> <<" ">>, command |-> <<" ", "\t">>,
       commandID |-> "", commandName |-> "", username |-> "bob"] }

\* further arguments: a command that writes to standard error only, and one
\* whose output is not text
HostileSubmissions ==
    Submissions \cup
    { [workdir |-> <<"/srv">>, command |-> <<"ls", " ", "/nope">>,
       commandID |-> "", commandName |-> "", username |-> "alice"],
      [workdir |-> <<"/srv">>, command |-> <<"cat", " ", "logo.png">>,
       commandID |-> "c2", commandName |-> "logo", username |-> "bob"] }

\* ------------------------------------------------------------ the child process
\* directories that exist on the host
Dirs == {<<"/srv">>}

\* What cmd.Run() of sh -c command in workdir yields: err is "nil", "exit"
\* (*exec.ExitError) or "start" (any other error).  In a string, <ff> stands
\* for the byte 0xFF, which no UTF-8 text holds, and <fffd> for U+FFFD.
Sh(workdir, command) ==
    IF workdir # <<>> /\ workdir \notin Dirs
    THEN [err |-> "start", code |-> -1, stdout |-> "", stderr |-> "",
          msg |-> "chdir: no such file or directory"]
    ELSE IF command = <<"echo", " ", "hello">>
    THEN [err |-> "nil", code |-> 0, stdout |-> "hello\n", stderr |-> "", msg |-> ""]
    ELSE IF command = <<"build", ";", "exit", " ", "7">>
    THEN [err |-> "exit", code |-> 7, stdout |-> "compiling\n",
          stderr |-> "link error\n", msg |-> "exit status 7"]
    ELSE IF command = <<"ls", " ", "/nope">>
    THEN [err |-> "exit", code |-> 2, stdout |-> "",
          stderr |-> "ls: /nope: No such file or directory\n", msg |-> "exit status 2"]
    ELSE IF command = <<"cat", " ", "logo.png">>
    THEN [err |-> "nil", code |-> 0, stdout |-> "PNG<ff>", stderr |-> "", msg |-> ""]
    ELSE [err |-> "nil", code |-> 0, stdout |-> "", stderr |-> "", msg |-> ""]

\* ------------------------------------------------------------ runCommand's assignments
\* a slip: the separator is added whenever there is standard error
CombineOutputAlwaysSep(stdout, stderr) ==
    IF Len(stderr) > 0
    THEN (IF Len(stdout) >= 0 THEN stdout \o "\n" ELSE stdout) \o stderr
    ELSE stdout

CombineOutput(stdout, stderr) ==
    IF Len(stderr) > 0
    THEN (IF Len(stdout) > 0 THEN stdout \o "\n" ELSE stdout) \o stderr
    ELSE stdout

\* a slip: only a failure to start counts as a failure
StatusOfStartOnly(res) == IF res.err = "start" THEN "failed" ELSE "success"

StatusOf(res) == IF res.err # "nil" THEN "failed" ELSE "success"

\* a slip: the code cmd.Run reports is kept also when the process never started
ExitCodeOfRaw(res) ==
    IF res.err = "nil" THEN 0
    ELSE IF res.err = "exit" THEN res.code
    ELSE res.code

ExitCodeOf(res) ==
    IF res.err = "nil" THEN 0
    ELSE IF res.err = "exit" THEN res.code
    ELSE 1

ErrorSuffix(res) == "\nError: " \o res.msg

\* ------------------------------------------------------------ JSON
\* json.Marshal of an Execution: the object's keys and values.  command_id
\* and duration carry omitempty; omitempty never omits a time.Time.
\* json.Marshal of a string: the string coerced to valid UTF-8, every invalid
\* byte replaced by U+FFFD
ToValidUTF8(s) == IF s = "PNG<ff>" THEN "PNG<fffd>" ELSE s

MarshalExecution(e) ==
    [id |-> e.ID, name |-> ToValidUTF8(e.Name), workdir |-> e.Workdir,
     command |-> e.Command, status |-> e.Status, output |-> ToValidUTF8(e.Output),
     exit_code |-> e.ExitCode,
     executed_by |-> ToValidUTF8(e.ExecutedBy), started_at |-> e.StartedAt,
     ended_at |-> e.EndedAt]
    @@ (IF e.CommandID # "" THEN [command_id |-> e.CommandID] ELSE <<>>)
    @@ (IF e.Duration # "" THEN [duration |-> e.Duration] ELSE <<>>)

JsonField(o, k, zero) == IF k \in DOMAIN o THEN o[k] ELSE zero

UnmarshalExecution(o) ==
    [ID |-> JsonField(o, "id", 0), CommandID |-> JsonField(o, "command_id", ""),
     Name |-> JsonField(o, "name", ""), Workdir |-> JsonField(o, "workdir", <<>>),
     Command |-> JsonField(o, "command", <<>>), Status |-> JsonField(o, "status", ""),
     Output |-> JsonField(o, "output", ""), ExitCode |-> JsonField(o, "exit_code", 0),
     ExecutedBy |-> JsonField(o, "executed_by", ""),
     StartedAt |-> JsonField(o, "started_at", ZeroTime),
     EndedAt |-> JsonField(o, "ended_at", ZeroTime),
     Duration |-> JsonField(o, "duration", "")]

\* ------------------------------------------------------------ state
VARIABLES
    nextId,    \* the next uuid uuid.New() returns (uuids are never repeated)
    clock,     \* the last reading of time.Now()
    heap,      \* the Execution objects, by address
    maps,      \* the map[string]*Execution objects, by address: key -> address
    cur,       \* Executor.executions: the address of the current map
    disk,      \* executions.json: whether it exists, the JSON document it holds
               \* (doc) and whether its content is a cut-off document (bad)
    pc,        \* each agent's next statement
    loc,       \* each agent's local variables
    gone,      \* history: how an execution was last removed ("deleted", "cleared")
    requests,  \* the number of requests accepted so far
    restarts,  \* the number of process restarts so far
    catalog,   \* the saved commands: the Command objects by id (objs), the keys
               \* of App.commands (keys) and commands.json (file)
    seen,      \* history: the ids of the records executions.json has held
    users      \* the users: App.users, username -> password (mem), users.json
               \* (file) and, as history, the setup requests answered 201 (setups)

vars == <<nextId, clock, heap, maps, cur, disk, pc, loc, gone, requests, restarts,
          catalog, seen, users>>

\* the user users.json holds when the server is first started
StartUsers ==
    [mem |-> (<<"a", "l", "i", "c", "e">> :> <<"p", "w", "1", "2">>),
     file |-> (<<"a", "l", "i", "c", "e">> :> <<"p", "w", "1", "2">>),
     setups |-> 0]

\* the saved commands commands.json holds when the server is first started
SavedCommands ==
    [c \in {"c1"} |->
        [ID |-> c, Name |-> "deploy", Description |-> "", Workdir |-> <<"/srv">>,
         Command |-> <<"echo", " ", "hello">>]]

\* what a handler has read of a saved command, or of the body of its request
NoArgs == [workdir |-> <<>>, command |-> <<>>, commandID |-> "", commandName |-> "",
           description |-> ""]

\* err is history: the error returned by the SaveExecutions the agent called
\* last, which the code drops, or the run-time panic that ended its call
IdleFrame == [op |-> "", id |-> 0, m |-> 0, ret |-> <<>>, ok |-> FALSE, err |-> "nil",
              limit |-> 0, code |-> 0, args |-> NoArgs, header |-> <<>>,
              username |-> <<>>, password |-> <<>>]

EmptyMap == <<>>

Init ==
    /\ nextId = 1
    /\ clock = 1
    /\ heap = [a \in Addrs |-> NoExecution]
    /\ maps = <<EmptyMap>>
    /\ cur = 1
    /\ disk = [exists |-> FALSE, doc |-> <<>>, bad |-> FALSE]
    /\ pc = [ag \in Agents |-> IF ag \in Callers THEN "idle" ELSE "unborn"]
    /\ loc = [ag \in Agents |-> IdleFrame]
    /\ gone = [a \in Addrs |-> ""]
    /\ requests = 0
    /\ restarts = 0
    /\ catalog = [objs |-> SavedCommands, keys |-> DOMAIN SavedCommands,
                  file |-> SavedCommands]
    /\ seen = {}
    /\ users = StartUsers

\* ------------------------------------------------------------ map operations
\* m[key] = addr
MapAssign(m, key, addr) == (key :> addr) @@ m

\* a slip: the keys up to key go with it
MapDeleteUpTo(m, key) == [k \in {j \in DOMAIN m : j > key} |-> m[k]]

\* delete(m, key)
MapDelete(m, key) == [k \in DOMAIN m \ {key} |-> m[k]]

\* json.MarshalIndent of the map at address m: key -> object
MarshalMap(m) == [k \in DOMAIN maps[m] |-> MarshalExecution(heap[maps[m][k]])]

\* a request is accepted by an idle caller
Accept(t) ==
    /\ pc[t] = "idle"
    /\ requests < MaxRequests
    /\ requests' = requests + 1

\* ------------------------------------------------------------ Executor.Execute
\* lines 34-43: build the record
Build(t, s) ==
    /\ nextId <= MaxExec
    /\ clock' = clock + 1
    /\ heap' = [heap EXCEPT ![nextId] =
                   NewExecution(nextId, s.workdir, s.command, s.commandID,
                                s.commandName, s.username, clock + 1)]
    /\ nextId' = nextId + 1
    /\ pc' = [pc EXCEPT ![t] = "exec_insert"]
    /\ loc' = [loc EXCEPT ![t] = [IdleFrame EXCEPT !.op = "Execute", !.id = nextId]]
    /\ UNCHANGED <<users, catalog, seen, maps, cur, disk, gone, restarts>>

\* a call of Execute, with any arguments
ExecuteBuild(t, s) == Accept(t) /\ Build(t, s)

\* the key and the value Execute stores: execution.ID -> execution
ExecuteKey(a) == heap[a].ID

\* line 46
ExecuteInsert(t) ==
    /\ pc[t] = "exec_insert"
    /\ maps' = [maps EXCEPT ![cur] = MapAssign(@, ExecuteKey(loc[t].id), loc[t].id)]
    /\ pc' = [pc EXCEPT ![t] = "save_call"]
    /\ UNCHANGED <<users, catalog, seen, nextId, clock, heap, cur, disk, loc, gone, requests, restarts>>

\* lines 50-52: go e.runCommand(execution); return execution, nil
ExecuteGo(t) ==
    /\ pc[t] = "exec_go"
    /\ pc' = [pc EXCEPT ![t] = "respond", ![G(loc[t].id)] = "run"]
    /\ loc' = [loc EXCEPT ![t].ret = <<loc[t].id>>, ![t].ok = TRUE,
                          ![G(loc[t].id)] = [IdleFrame EXCEPT !.op = "runCommand",
                                                              !.id = loc[t].id]]
    /\ UNCHANGED <<users, catalog, seen, nextId, clock, heap, maps, cur, disk, gone, requests, restarts>>

\* ------------------------------------------------------------ Storage.SaveExecutions
\* the call: its argument e.executions is evaluated (executor.go 47, 97, 140, 147)
SaveCall(ag) ==
    /\ pc[ag] = "save_call"
    /\ loc' = [loc EXCEPT ![ag].m = cur]
    /\ pc' = [pc EXCEPT ![ag] = "save_write"]
    /\ UNCHANGED <<users, catalog, seen, nextId, clock, heap, maps, cur, disk, gone, requests, restarts>>

\* where the caller of SaveExecutions goes on
AfterSave(op) ==
    CASE op = "Execute" -> "exec_go"
      [] op = "runCommand" -> "done"
      [] OTHER -> "idle"

\* lines 195-203 and the return to the caller.  executionsMutex is taken by
\* SaveExecutions and LoadExecutions only and is always released, so the
\* bodies of two saves never interleave: Lock, MarshalIndent, WriteFile and
\* Unlock are one step.  Delete and Clear return right after it.
SaveWrite(ag) ==
    /\ pc[ag] = "save_write"
    /\ disk' = [exists |-> TRUE, doc |-> MarshalMap(loc[ag].m), bad |-> FALSE]
    /\ pc' = [pc EXCEPT ![ag] = AfterSave(loc[ag].op)]
    /\ loc' = [loc EXCEPT ![ag] = IF loc[ag].op \in {"Delete", "Clear"}
                                   THEN IdleFrame ELSE [@ EXCEPT !.m = 0]]
    /\ seen' = seen \cup DOMAIN maps[loc[ag].m]
    /\ UNCHANGED <<users, catalog, nextId, clock, heap, maps, cur, gone, requests, restarts>>

\* what os.WriteFile leaves of the file when it returns an error: the file as
\* it was (it could not be opened), or, truncated on opening, an empty file or
\* the beginning of the new document
FailedWrites == {disk, [exists |-> TRUE, doc |-> <<>>, bad |-> FALSE],
                       [exists |-> TRUE, doc |-> <<>>, bad |-> TRUE]}

\* where the caller of a SaveExecutions that returned an error goes on: the
\* callers drop the error, so Execute, runCommand, DeleteExecution (true) and
\* ClearExecutions go on as after a save; the handler's answer is a step of
\* its own here
AfterFailedSave(op) ==
    CASE op = "Execute" -> "exec_go"
      [] op = "runCommand" -> "done"
      [] OTHER -> "respond"

\* lines 195-203 when os.WriteFile returns an error
SaveFail(ag) ==
    /\ pc[ag] = "save_write"
    /\ disk' \in FailedWrites
    /\ pc' = [pc EXCEPT ![ag] = AfterFailedSave(loc[ag].op)]
    /\ loc' = [loc EXCEPT ![ag].m = 0, ![ag].err = "write"]
    /\ UNCHANGED <<users, catalog, seen, nextId, clock, heap, maps, cur, gone, requests, restarts>>

\* ------------------------------------------------------------ reads
\* GetExecution: ret holds the pointer under id, nothing when there is none
\* (ok = false)
GetExecution(t, id) ==
    /\ Accept(t)
    /\ pc' = [pc EXCEPT ![t] = "respond"]
    /\ loc' = [loc EXCEPT ![t] =
                  [IdleFrame EXCEPT !.op = "Get", !.id = id,
                      !.ret = IF id \in DOMAIN maps[cur] THEN <<maps[cur][id]>> ELSE <<>>]]
    /\ UNCHANGED <<users, catalog, seen, nextId, clock, heap, maps, cur, disk, gone, restarts>>

\* a slip: the comparison the other way round
BeforeReversed(l, i, j) == heap[l[j]].StartedAt < heap[l[i]].StartedAt

\* execList[i].StartedAt.Before(execList[j].StartedAt)
Before(l, i, j) == heap[l[i]].StartedAt < heap[l[j]].StartedAt

Swap(l, i, j) == [l EXCEPT ![i] = l[j], ![j] = l[i]]

\* lines 115-119: the inner loop, from j on (1-based)
RECURSIVE SortInner(_, _, _)
SortInner(l, i, j) ==
    IF j > Len(l) THEN l
    ELSE SortInner(IF Before(l, i, j) THEN Swap(l, i, j) ELSE l, i, j + 1)

\* lines 114-120: the outer loop, from i on
RECURSIVE SortOuter(_, _)
SortOuter(l, i) ==
    IF i >= Len(l) THEN l ELSE SortOuter(SortInner(l, i, i + 1), i + 1)

\* the orders in which range may visit the values of map m
RangeOrders(m) ==
    { l \in [1..Cardinality(DOMAIN m) -> {m[k] : k \in DOMAIN m}] :
        \A i, j \in DOMAIN l : i # j => l[i] # l[j] }

\* GetAllExecutions: the pointers, newest first
GetAllExecutions(t) ==
    /\ Accept(t)
    /\ \E l \in RangeOrders(maps[cur]) :
        loc' = [loc EXCEPT ![t] = [IdleFrame EXCEPT !.op = "GetAll",
                                                    !.ret = SortOuter(l, 1)]]
    /\ pc' = [pc EXCEPT ![t] = "respond"]
    /\ UNCHANGED <<users, catalog, seen, nextId, clock, heap, maps, cur, disk, gone, restarts>>

\* a slip: one record too many
RecentOffByOne(all, limit) ==
    IF Len(all) <= limit THEN all ELSE SubSeq(all, 1, limit + 1)

\* lines 128-131: all, or all[:limit]
Recent(all, limit) ==
    IF Len(all) <= limit THEN all ELSE SubSeq(all, 1, limit)

\* line 131: the slice expression all[:limit] is reached with a negative
\* limit, which is a run-time panic (slice bounds out of range)
RecentPanics(all, limit) == ~(Len(all) <= limit) /\ limit < 0

\* GetRecentExecutions(limit): it returns the records, or panics
GetRecentExecutions(t, limit) ==
    /\ Accept(t)
    /\ \E l \in RangeOrders(maps[cur]) :
        loc' = [loc EXCEPT ![t] =
                   IF RecentPanics(SortOuter(l, 1), limit)
                   THEN [IdleFrame EXCEPT !.op = "GetRecent", !.limit = limit,
                                          !.err = "panic"]
                   ELSE [IdleFrame EXCEPT !.op = "GetRecent", !.limit = limit,
                                          !.ret = Recent(SortOuter(l, 1), limit)]]
    /\ pc' = [pc EXCEPT ![t] = "respond"]
    /\ UNCHANGED <<users, catalog, seen, nextId, clock, heap, maps, cur, disk, gone, restarts>>

\* ------------------------------------------------------------ DeleteExecution
\* a slip: line 136-138 left out
DeleteCheckAlways(t, id) ==
    /\ Accept(t)
    /\ pc' = [pc EXCEPT ![t] = "delete_write"]
    /\ loc' = [loc EXCEPT ![t] = [IdleFrame EXCEPT !.op = "Delete", !.id = id,
                                                    !.ok = TRUE]]
    /\ UNCHANGED <<users, catalog, seen, nextId, clock, heap, maps, cur, disk, gone, restarts>>

\* lines 136-138: an unknown id is answered false at once
DeleteCheck(t, id) ==
    /\ Accept(t)
    /\ IF id \in DOMAIN maps[cur]
       THEN /\ pc' = [pc EXCEPT ![t] = "delete_write"]
            /\ loc' = [loc EXCEPT ![t] = [IdleFrame EXCEPT !.op = "Delete", !.id = id,
                                                            !.ok = TRUE]]
       ELSE /\ pc' = [pc EXCEPT ![t] = "respond"]
            /\ loc' = [loc EXCEPT ![t] = [IdleFrame EXCEPT !.op = "Delete", !.id = id]]
    /\ UNCHANGED <<users, catalog, seen, nextId, clock, heap, maps, cur, disk, gone, restarts>>

\* a slip: line 140 left out
DeleteWriteUnsaved(t) ==
    /\ pc[t] = "delete_write"
    /\ maps' = [maps EXCEPT ![cur] = MapDelete(@, loc[t].id)]
    /\ gone' = [gone EXCEPT ![loc[t].id] = "deleted"]
    /\ pc' = [pc EXCEPT ![t] = "respond"]
    /\ UNCHANGED <<users, catalog, seen, nextId, clock, heap, cur, disk, loc, requests, restarts>>

\* line 139
DeleteWrite(t) ==
    /\ pc[t] = "delete_write"
    /\ maps' = [maps EXCEPT ![cur] = MapDelete(@, loc[t].id)]
    /\ gone' = [gone EXCEPT ![loc[t].id] = "deleted"]
    /\ pc' = [pc EXCEPT ![t] = "save_call"]
    /\ UNCHANGED <<users, catalog, seen, nextId, clock, heap, cur, disk, loc, requests, restarts>>

\* ------------------------------------------------------------ ClearExecutions
\* line 146: e.executions = make(map[string]*Execution)
ClearAssign(t) ==
    /\ Accept(t)
    /\ maps' = Append(maps, EmptyMap)
    /\ cur' = Len(maps) + 1
    /\ gone' = [a \in Addrs |-> IF a \in DOMAIN maps[cur] THEN "cleared" ELSE gone[a]]
    /\ pc' = [pc EXCEPT ![t] = "save_call"]
    /\ loc' = [loc EXCEPT ![t] = [IdleFrame EXCEPT !.op = "Clear", !.ok = TRUE]]
    /\ UNCHANGED <<users, catalog, seen, nextId, clock, heap, disk, restarts>>

\* ------------------------------------------------------------ the handler's response
\* respondJSON: the handler reads what the engine returned (for a pointer, the
\* record behind it) and the request ends
Respond(t) ==
    /\ pc[t] = "respond"
    /\ pc' = [pc EXCEPT ![t] = "idle"]
    /\ loc' = [loc EXCEPT ![t] = IdleFrame]
    /\ UNCHANGED <<users, catalog, seen, nextId, clock, heap, maps, cur, disk, gone, requests, restarts>>

\* the status the handler answers with: ExecuteHandler and
\* ExecuteCommandHandler (500 for an error of Execute), GetExecutionHandler and
\* DeleteExecutionHandler (404 for an unknown id), the others 200
ResponseStatus(t) ==
    CASE loc[t].op \in {"ExecuteHandler", "CreateCommand", "ExecuteCommand",
                        "UpdateCommand", "DeleteCommand", "Setup", "CreateUser",
                        "DeleteUser", "ListUsers"} -> loc[t].code
      [] loc[t].op = "Execute" -> IF loc[t].ok THEN 200 ELSE 500
      [] loc[t].op = "Delete" -> IF loc[t].ok THEN 200 ELSE 404
      [] loc[t].op = "Get" -> IF loc[t].ret # <<>> THEN 200 ELSE 404
      [] OTHER -> 200

\* ------------------------------------------------------------ the saved commands
\* the ids requests name
CommandIDs == {"c1"}

\* the id uuid.New() gives the command CreateCommandHandler stores, and an
\* id no command has had
NewCommandID == "c2"
UnknownCommandID == "c9"

\* the bodies of the requests to CreateCommandHandler and UpdateCommandHandler
Updates ==
    { [commandName |-> "release", description |-> "tagged", workdir |-> <<"/opt">>,
       command |-> <<"build", ";", "exit", " ", "7">>, commandID |-> ""],
      [commandName |-> "", description |-> "", workdir |-> <<"/opt">>,
       command |-> <<"build", ";", "exit", " ", "7">>, commandID |-> ""],
      [commandName |-> "blank", description |-> "", workdir |-> <<" ">>,
       command |-> <<"\t", " ">>, commandID |-> ""] }

\* a handler answers with an error
Refuse(t, op, code) ==
    /\ pc' = [pc EXCEPT ![t] = "respond"]
    /\ loc' = [loc EXCEPT ![t] = [IdleFrame EXCEPT !.op = op, !.code = code]]

\* ExecuteHandler, lines 51-59: the validation of the body, then Execute with
\* no command id and no command name
ExecuteHandler(t, s) ==
    /\ Accept(t)
    /\ IF ValidateCommand(s.workdir, s.command) # "nil"
       THEN /\ Refuse(t, "ExecuteHandler", 400)
            /\ UNCHANGED <<users, catalog, seen, nextId, clock, heap, maps, cur, disk, gone, restarts>>
       ELSE Build(t, [s EXCEPT !.commandID = "", !.commandName = ""])

\* CreateCommandHandler, lines 81-91: the validation of the body and the new id
CreateCommandCheck(t, u) ==
    /\ Accept(t)
    /\ NewCommandID \notin DOMAIN catalog.objs
    /\ IF u.commandName = "" \/ ValidateCommand(u.workdir, u.command) # "nil"
       THEN Refuse(t, "CreateCommand", 400)
       ELSE /\ pc' = [pc EXCEPT ![t] = "cmd_create"]
            /\ loc' = [loc EXCEPT ![t] = [IdleFrame EXCEPT !.op = "CreateCommand",
                                              !.args = [u EXCEPT !.commandID = NewCommandID]]]
    /\ UNCHANGED <<users, catalog, seen, nextId, clock, heap, maps, cur, disk, gone, restarts>>

\* line 96: app.commands[cmd.ID] = &cmd
CreateCommandWrite(t) ==
    /\ pc[t] = "cmd_create"
    /\ catalog' = [catalog EXCEPT
                      !.objs = (loc[t].args.commandID :>
                                   [ID |-> loc[t].args.commandID,
                                    Name |-> loc[t].args.commandName,
                                    Description |-> loc[t].args.description,
                                    Workdir |-> loc[t].args.workdir,
                                    Command |-> loc[t].args.command]) @@ @,
                      !.keys = @ \cup {loc[t].args.commandID}]
    /\ pc' = [pc EXCEPT ![t] = "cmd_save"]
    /\ UNCHANGED <<users, seen, nextId, clock, heap, maps, cur, disk, loc, gone, requests, restarts>>

\* a slip: the command is read though the catalog has no such id
ExecuteCommandLookupUnchecked(t, c) ==
    /\ Accept(t)
    /\ pc' = [pc EXCEPT ![t] = "cmd_read_workdir"]
    /\ loc' = [loc EXCEPT ![t] = [IdleFrame EXCEPT !.op = "ExecuteCommand",
                                                    !.args.commandID = c]]
    /\ UNCHANGED <<users, catalog, seen, nextId, clock, heap, maps, cur, disk, gone, restarts>>

\* ExecuteCommandHandler, lines 197-201: cmd, ok := app.commands[id]
ExecuteCommandLookup(t, c) ==
    /\ Accept(t)
    /\ IF c \in catalog.keys
       THEN /\ pc' = [pc EXCEPT ![t] = "cmd_read_workdir"]
            /\ loc' = [loc EXCEPT ![t] = [IdleFrame EXCEPT !.op = "ExecuteCommand",
                                                            !.args.commandID = c]]
       ELSE Refuse(t, "ExecuteCommand", 404)
    /\ UNCHANGED <<users, catalog, seen, nextId, clock, heap, maps, cur, disk, gone, restarts>>

\* line 206, the arguments of Execute in their order: cmd.Workdir
ExecuteCommandReadWorkdir(t) ==
    /\ pc[t] = "cmd_read_workdir"
    /\ loc' = [loc EXCEPT ![t].args.workdir = catalog.objs[loc[t].args.commandID].Workdir]
    /\ pc' = [pc EXCEPT ![t] = "cmd_read_command"]
    /\ UNCHANGED <<users, catalog, seen, nextId, clock, heap, maps, cur, disk, gone, requests, restarts>>

\* cmd.Command
ExecuteCommandReadCommand(t) ==
    /\ pc[t] = "cmd_read_command"
    /\ loc' = [loc EXCEPT ![t].args.command = catalog.objs[loc[t].args.commandID].Command]
    /\ pc' = [pc EXCEPT ![t] = "cmd_read_name"]
    /\ UNCHANGED <<users, catalog, seen, nextId, clock, heap, maps, cur, disk, gone, requests, restarts>>

\* cmd.ID and cmd.Name, and the call of Execute
ExecuteCommandCall(t) ==
    /\ pc[t] = "cmd_read_name"
    /\ Build(t, [workdir |-> loc[t].args.workdir, command |-> loc[t].args.command,
                 commandID |-> catalog.objs[loc[t].args.commandID].ID,
                 commandName |-> catalog.objs[loc[t].args.commandID].Name,
                 username |-> "alice"])
    /\ UNCHANGED requests

\* a slip: the body is stored without ValidateCommand
UpdateCommandCheckUnvalidated(t, c, u) ==
    /\ Accept(t)
    /\ IF c \notin catalog.keys THEN Refuse(t, "UpdateCommand", 404)
       ELSE IF u.commandName = ""
       THEN Refuse(t, "UpdateCommand", 400)
       ELSE /\ pc' = [pc EXCEPT ![t] = "upd_write_name"]
            /\ loc' = [loc EXCEPT ![t] = [IdleFrame EXCEPT !.op = "UpdateCommand",
                                              !.args = [u EXCEPT !.commandID = c]]]
    /\ UNCHANGED <<users, catalog, seen, nextId, clock, heap, maps, cur, disk, gone, restarts>>

\* UpdateCommandHandler, lines 153-173: the lookup, the body, the validation
UpdateCommandCheck(t, c, u) ==
    /\ Accept(t)
    /\ IF c \notin catalog.keys THEN Refuse(t, "UpdateCommand", 404)
       ELSE IF u.commandName = "" \/ ValidateCommand(u.workdir, u.command) # "nil"
       THEN Refuse(t, "UpdateCommand", 400)
       ELSE /\ pc' = [pc EXCEPT ![t] = "upd_write_name"]
            /\ loc' = [loc EXCEPT ![t] = [IdleFrame EXCEPT !.op = "UpdateCommand",
                                              !.args = [u EXCEPT !.commandID = c]]]
    /\ UNCHANGED <<users, catalog, seen, nextId, clock, heap, maps, cur, disk, gone, restarts>>

\* a slip: the new name is carried into the records of the command's runs
UpdateWriteNameRefreshing(t) ==
    /\ pc[t] = "upd_write_name"
    /\ catalog' = [catalog EXCEPT !.objs[loc[t].args.commandID].Name = loc[t].args.commandName,
                                  !.objs[loc[t].args.commandID].Description =
                                      loc[t].args.description]
    /\ heap' = [a \in DOMAIN heap |->
                   IF heap[a].ID # 0 /\ heap[a].CommandID = loc[t].args.commandID
                   THEN [heap[a] EXCEPT !.Name = loc[t].args.commandName] ELSE heap[a]]
    /\ pc' = [pc EXCEPT ![t] = "upd_write_workdir"]
    /\ UNCHANGED <<users, seen, nextId, clock, maps, cur, disk, loc, gone, requests, restarts>>

\* lines 176-177: existing.Name, existing.Description
UpdateWriteName(t) ==
    /\ pc[t] = "upd_write_name"
    /\ catalog' = [catalog EXCEPT !.objs[loc[t].args.commandID].Name = loc[t].args.commandName,
                                  !.objs[loc[t].args.commandID].Description =
                                      loc[t].args.description]
    /\ pc' = [pc EXCEPT ![t] = "upd_write_workdir"]
    /\ UNCHANGED <<users, seen, nextId, clock, heap, maps, cur, disk, loc, gone, requests, restarts>>

\* line 178: existing.Workdir
UpdateWriteWorkdir(t) ==
    /\ pc[t] = "upd_write_workdir"
    /\ catalog' = [catalog EXCEPT !.objs[loc[t].args.commandID].Workdir = loc[t].args.workdir]
    /\ pc' = [pc EXCEPT ![t] = "upd_write_command"]
    /\ UNCHANGED <<users, seen, nextId, clock, heap, maps, cur, disk, loc, gone, requests, restarts>>

\* lines 179-181: existing.Command (Tags and UpdatedAt, which the engine
\* never reads, are left out of the objects)
UpdateWriteCommand(t) ==
    /\ pc[t] = "upd_write_command"
    /\ catalog' = [catalog EXCEPT !.objs[loc[t].args.commandID].Command = loc[t].args.command]
    /\ pc' = [pc EXCEPT ![t] = "cmd_save"]
    /\ UNCHANGED <<users, seen, nextId, clock, heap, maps, cur, disk, loc, gone, requests, restarts>>

\* DeleteCommandHandler, lines 134-137
DeleteCommandCheck(t, c) ==
    /\ Accept(t)
    /\ IF c \notin catalog.keys THEN Refuse(t, "DeleteCommand", 404)
       ELSE /\ pc' = [pc EXCEPT ![t] = "cmd_delete"]
            /\ loc' = [loc EXCEPT ![t] = [IdleFrame EXCEPT !.op = "DeleteCommand",
                                                            !.args.commandID = c]]
    /\ UNCHANGED <<users, catalog, seen, nextId, clock, heap, maps, cur, disk, gone, restarts>>

\* line 139: delete(app.commands, id); the object stays where a handler
\* holds a pointer to it
DeleteCommandWrite(t) ==
    /\ pc[t] = "cmd_delete"
    /\ catalog' = [catalog EXCEPT !.keys = @ \ {loc[t].args.commandID}]
    /\ pc' = [pc EXCEPT ![t] = "cmd_save"]
    /\ UNCHANGED <<users, seen, nextId, clock, heap, maps, cur, disk, loc, gone, requests, restarts>>

\* SaveCommands(app.commands) and the handler's answer to its result
\* (lines 97-102, 140-143, 184-187); a write that fails leaves the file as it
\* was or empty
SaveCommands(t) ==
    /\ pc[t] = "cmd_save"
    /\ \/ /\ catalog' = [catalog EXCEPT !.file = [k \in catalog.keys |-> catalog.objs[k]]]
          /\ loc' = [loc EXCEPT ![t].code = IF loc[t].op = "CreateCommand" THEN 201 ELSE 200,
                                ![t].ok = TRUE]
       \/ /\ \E f \in {catalog.file, <<>>} : catalog' = [catalog EXCEPT !.file = f]
          /\ loc' = [loc EXCEPT ![t].code = 500]
    /\ pc' = [pc EXCEPT ![t] = "respond"]
    /\ UNCHANGED <<users, seen, nextId, clock, heap, maps, cur, disk, gone, requests, restarts>>

\* ------------------------------------------------------------ users and authentication
\* Strings the code takes apart are sequences of characters.
Alice == <<"a", "l", "i", "c", "e">>
Bob == <<"b", "o", "b">>

\* the bodies of the requests to SetupHandler and CreateUserHandler: two that
\* pass the validation (one password holds a colon), a username that is too
\* short, one with a colon, a password that is too short
UserBodies ==
    { [username |-> Alice, password |-> <<"p", "w", "1", "2">>],
      [username |-> Bob, password |-> <<"p", ":", "s", "s", "1">>],
      [username |-> <<"a", "l">>, password |-> <<"p", "w", "1", "2">>],
      [username |-> <<"a", ":", "b", "c">>, password |-> <<"p", "w", "1", "2">>],
      [username |-> <<"c", "a", "r", "o", "l">>, password |-> <<"a", "b", "c">>] }

\* the usernames DeleteUserHandler is asked to delete
Usernames == {Alice, Bob, <<"c", "a", "r", "o", "l">>}

\* validateUsername
validateUsername(username) ==
    IF Len(username) < 3 THEN "Username must be at least 3 characters"
    ELSE IF \E i \in DOMAIN username : username[i] = ":"
    THEN "Username cannot contain colon"
    ELSE "nil"

\* validatePassword
validatePassword(password) ==
    IF Len(password) < 4 THEN "Password must be at least 4 characters" ELSE "nil"

\* base64.StdEncoding.DecodeString, on the texts the requests carry: the
\* bytes a text decodes to; a text outside the table is not base64
Base64 ==
    [e \in {"YWxpY2U6cHcxMg==", "YWxpY2U6bm9wZQ==", "Ym9iOnA6c3Mx", "Y2Fyb2w6cHcxMg==",
            "YWxpY2VwdzEy", ""} |->
        CASE e = "YWxpY2U6cHcxMg==" -> <<"a", "l", "i", "c", "e", ":", "p", "w", "1", "2">>
          [] e = "YWxpY2U6bm9wZQ==" -> <<"a", "l", "i", "c", "e", ":", "n", "o", "p", "e">>
          [] e = "Ym9iOnA6c3Mx" -> <<"b", "o", "b", ":", "p", ":", "s", "s", "1">>
          [] e = "Y2Fyb2w6cHcxMg==" -> <<"c", "a", "r", "o", "l", ":", "p", "w", "1", "2">>
          [] e = "YWxpY2VwdzEy" -> <<"a", "l", "i", "c", "e", "p", "w", "1", "2">>
          [] e = "" -> <<>>]

\* the Authorization headers of the requests, as the scheme with its blank
\* and the rest: none, alice's and bob's credentials, a wrong password, an
\* unknown user, credentials without a colon, text that is not base64, a
\* scheme in lower case, another scheme, the scheme alone
Headers ==
    { <<>>,
      <<"Basic ", "YWxpY2U6cHcxMg==">>,
      <<"Basic ", "Ym9iOnA6c3Mx">>,
      <<"Basic ", "YWxpY2U6bm9wZQ==">>,
      <<"Basic ", "Y2Fyb2w6cHcxMg==">>,
      <<"Basic ", "YWxpY2VwdzEy">>,
      <<"Basic ", "!!!">>,
      <<"basic ", "YWxpY2U6cHcxMg==">>,
      <<"Bearer ", "YWxpY2U6cHcxMg==">>,
      <<"Basic ", "">> }

\* strings.Index(credentials, ":"): the first colon, 0 when there is none
\* (Go counts from 0 and answers -1)
ColonIndex(credentials) ==
    IF \E i \in DOMAIN credentials : credentials[i] = ":"
    THEN CHOOSE i \in DOMAIN credentials :
            /\ credentials[i] = ":"
            /\ \A j \in 1..(i - 1) : credentials[j] # ":"
    ELSE 0

\* parseBasicAuth
parseBasicAuth(authHeader) ==
    LET failed == [username |-> <<>>, password |-> <<>>, ok |-> FALSE] IN
    IF authHeader = <<>> THEN failed
    ELSE IF authHeader[1] # "Basic " THEN failed
    ELSE IF authHeader[2] \notin DOMAIN Base64 THEN failed
    ELSE LET credentials == Base64[authHeader[2]] IN
         IF ColonIndex(credentials) = 0 THEN failed
         ELSE [username |-> SubSeq(credentials, 1, ColonIndex(credentials) - 1),
               password |-> SubSeq(credentials, ColonIndex(credentials) + 1,
                                   Len(credentials)),
               ok |-> TRUE]

\* the handlers the router puts behind AuthMiddleware
Protected == {"CreateUser", "DeleteUser", "ListUsers"}

\* AuthMiddleware, lines 14-17: no user yet
AuthSetupCheck(t, h, next) ==
    /\ Accept(t)
    /\ IF DOMAIN users.mem = {}
       THEN Refuse(t, next, 401)
       ELSE /\ pc' = [pc EXCEPT ![t] = "auth_check"]
            /\ loc' = [loc EXCEPT ![t] = [IdleFrame EXCEPT !.op = next, !.header = h]]
    /\ UNCHANGED <<users, catalog, seen, nextId, clock, heap, maps, cur, disk, gone, restarts>>

\* a slip: the password is not compared
AuthCheckAnyPassword(t) ==
    /\ pc[t] = "auth_check"
    /\ LET p == parseBasicAuth(loc[t].header) IN
       IF ~p.ok \/ p.username \notin DOMAIN users.mem
       THEN Refuse(t, loc[t].op, 401)
       ELSE /\ pc' = [pc EXCEPT ![t] = "authed"]
            /\ loc' = [loc EXCEPT ![t].username = p.username]
    /\ UNCHANGED <<users, catalog, seen, nextId, clock, heap, maps, cur, disk, gone, requests, restarts>>

\* lines 19-34: the header is parsed and compared with the user's password;
\* next.ServeHTTP is called when they agree
AuthCheck(t) ==
    /\ pc[t] = "auth_check"
    /\ LET p == parseBasicAuth(loc[t].header) IN
       IF ~p.ok \/ p.username \notin DOMAIN users.mem
                \/ users.mem[p.username] # p.password
       THEN Refuse(t, loc[t].op, 401)
       ELSE /\ pc' = [pc EXCEPT ![t] = "authed"]
            /\ loc' = [loc EXCEPT ![t].username = p.username]
    /\ UNCHANGED <<users, catalog, seen, nextId, clock, heap, maps, cur, disk, gone, requests, restarts>>

\* SetupHandler, lines 267-286: setup is refused when a user exists; the body
\* is validated
SetupCheck(t, b) ==
    /\ Accept(t)
    /\ IF DOMAIN users.mem # {} THEN Refuse(t, "Setup", 400)
       ELSE IF validateUsername(b.username) # "nil" \/ validatePassword(b.password) # "nil"
       THEN Refuse(t, "Setup", 400)
       ELSE /\ pc' = [pc EXCEPT ![t] = "users_insert"]
            /\ loc' = [loc EXCEPT ![t] = [IdleFrame EXCEPT !.op = "Setup",
                                              !.username = b.username,
                                              !.password = b.password]]
    /\ UNCHANGED <<users, catalog, seen, nextId, clock, heap, maps, cur, disk, gone, restarts>>

\* CreateUserHandler, lines 355-375: the body is validated; a username that
\* exists is refused
CreateUserCheck(t, b) ==
    /\ pc[t] = "authed" /\ loc[t].op = "CreateUser"
    /\ IF validateUsername(b.username) # "nil" \/ validatePassword(b.password) # "nil"
       THEN Refuse(t, "CreateUser", 400)
       ELSE IF b.username \in DOMAIN users.mem THEN Refuse(t, "CreateUser", 409)
       ELSE /\ pc' = [pc EXCEPT ![t] = "users_insert"]
            /\ loc' = [loc EXCEPT ![t] = [IdleFrame EXCEPT !.op = "CreateUser",
                                              !.username = b.username,
                                              !.password = b.password]]
    /\ UNCHANGED <<users, catalog, seen, nextId, clock, heap, maps, cur, disk, gone, requests, restarts>>

\* lines 295 and 384: app.users[user.Username] = user
UsersInsert(t) ==
    /\ pc[t] = "users_insert"
    /\ users' = [users EXCEPT !.mem = (loc[t].username :> loc[t].password) @@ @]
    /\ pc' = [pc EXCEPT ![t] = "users_save"]
    /\ UNCHANGED <<catalog, seen, nextId, clock, heap, maps, cur, disk, loc, gone, requests, restarts>>

\* DeleteUserHandler, lines 414-417: an unknown username is answered 404
DeleteUserExists(t, u) ==
    /\ pc[t] = "authed" /\ loc[t].op = "DeleteUser"
    /\ IF u \notin DOMAIN users.mem THEN Refuse(t, "DeleteUser", 404)
       ELSE /\ pc' = [pc EXCEPT ![t] = "users_len"]
            /\ loc' = [loc EXCEPT ![t] = [IdleFrame EXCEPT !.op = "DeleteUser",
                                                            !.username = u]]
    /\ UNCHANGED <<users, catalog, seen, nextId, clock, heap, maps, cur, disk, gone, requests, restarts>>

\* lines 420-423: the last user is not deleted
DeleteUserLast(t) ==
    /\ pc[t] = "users_len"
    /\ IF Cardinality(DOMAIN users.mem) = 1 THEN Refuse(t, "DeleteUser", 400)
       ELSE /\ pc' = [pc EXCEPT ![t] = "users_delete"]
            /\ UNCHANGED loc
    /\ UNCHANGED <<users, catalog, seen, nextId, clock, heap, maps, cur, disk, gone, requests, restarts>>

\* line 425: delete(app.users, username)
DeleteUserWrite(t) ==
    /\ pc[t] = "users_delete"
    /\ users' = [users EXCEPT !.mem = [u \in DOMAIN @ \ {loc[t].username} |-> @[u]]]
    /\ pc' = [pc EXCEPT ![t] = "users_save"]
    /\ UNCHANGED <<catalog, seen, nextId, clock, heap, maps, cur, disk, loc, gone, requests, restarts>>

\* SaveUsers(app.users) and the handler's answer to its result (lines
\* 296-304, 385-393, 426-431); a write that fails leaves the file as it was
\* or empty
SaveUsers(t) ==
    /\ pc[t] = "users_save"
    /\ \/ /\ users' = [users EXCEPT !.file = users.mem,
                                    !.setups = IF loc[t].op = "Setup" THEN @ + 1 ELSE @]
          /\ loc' = [loc EXCEPT ![t].code = IF loc[t].op = "DeleteUser" THEN 200 ELSE 201,
                                ![t].ok = TRUE]
       \/ /\ \E f \in {users.file, <<>>} : users' = [users EXCEPT !.file = f]
          /\ loc' = [loc EXCEPT ![t].code = 500]
    /\ pc' = [pc EXCEPT ![t] = "respond"]
    /\ UNCHANGED <<catalog, seen, nextId, clock, heap, maps, cur, disk, gone, requests, restarts>>

\* ListUsersHandler
ListUsersHandler(t) ==
    /\ pc[t] = "authed" /\ loc[t].op = "ListUsers"
    /\ pc' = [pc EXCEPT ![t] = "respond"]
    /\ loc' = [loc EXCEPT ![t] = [IdleFrame EXCEPT !.op = "ListUsers", !.code = 200,
                                                    !.ok = TRUE]]
    /\ UNCHANGED <<users, catalog, seen, nextId, clock, heap, maps, cur, disk, gone, requests, restarts>>

\* ------------------------------------------------------------ Executor.runCommand
\* the result of cmd.Run() for the record at a
RunResult(a) == Sh(heap[a].Workdir, heap[a].Command)

\* lines 57-66: the child process ends, or fails to start
CmdRun(a) ==
    /\ pc[G(a)] = "run"
    /\ pc' = [pc EXCEPT ![G(a)] = "set_output"]
    /\ UNCHANGED <<users, catalog, seen, nextId, clock, heap, maps, cur, disk, loc, gone, requests, restarts>>

\* a slip: the start time is stamped again at the end
SetOutputRestamped(a) ==
    /\ pc[G(a)] = "set_output"
    /\ clock' = clock + 1
    /\ heap' = [heap EXCEPT ![a].EndedAt = clock + 1,
                            ![a].StartedAt = clock + 1,
                            ![a].Duration = DurationString(clock + 1 - heap[a].StartedAt),
                            ![a].Output =
                                CombineOutput(RunResult(a).stdout, RunResult(a).stderr)]
    /\ pc' = [pc EXCEPT ![G(a)] = "set_status"]
    /\ UNCHANGED <<users, catalog, seen, nextId, maps, cur, disk, loc, gone, requests, restarts>>

\* lines 69-80: EndedAt, Duration and Output
SetOutput(a) ==
    /\ pc[G(a)] = "set_output"
    /\ clock' = clock + 1
    /\ heap' = [heap EXCEPT ![a].EndedAt = clock + 1,
                            ![a].Duration = DurationString(clock + 1 - heap[a].StartedAt),
                            ![a].Output =
                                CombineOutput(RunResult(a).stdout, RunResult(a).stderr)]
    /\ pc' = [pc EXCEPT ![G(a)] = "set_status"]
    /\ UNCHANGED <<users, catalog, seen, nextId, maps, cur, disk, loc, gone, requests, restarts>>

\* line 83 or 91
SetStatus(a) ==
    /\ pc[G(a)] = "set_status"
    /\ heap' = [heap EXCEPT ![a].Status = StatusOf(RunResult(a))]
    /\ pc' = [pc EXCEPT ![G(a)] = "set_exit"]
    /\ UNCHANGED <<users, catalog, seen, nextId, clock, maps, cur, disk, loc, gone, requests, restarts>>

\* a slip: a command that failed is run again
SetExitCodeRetrying(a) ==
    /\ pc[G(a)] = "set_exit"
    /\ heap' = [heap EXCEPT ![a].ExitCode = ExitCodeOf(RunResult(a))]
    /\ pc' = [pc EXCEPT ![G(a)] =
                 IF RunResult(a).err = "start" THEN "append_error"
                 ELSE IF RunResult(a).err = "exit" THEN "run" ELSE "run_insert"]
    /\ UNCHANGED <<users, catalog, seen, nextId, clock, maps, cur, disk, loc, gone, requests, restarts>>

\* line 85, 87 or 92
SetExitCode(a) ==
    /\ pc[G(a)] = "set_exit"
    /\ heap' = [heap EXCEPT ![a].ExitCode = ExitCodeOf(RunResult(a))]
    /\ pc' = [pc EXCEPT ![G(a)] =
                 IF RunResult(a).err = "start" THEN "append_error" ELSE "run_insert"]
    /\ UNCHANGED <<users, catalog, seen, nextId, clock, maps, cur, disk, loc, gone, requests, restarts>>

\* line 88
AppendError(a) ==
    /\ pc[G(a)] = "append_error"
    /\ heap' = [heap EXCEPT ![a].Output = @ \o ErrorSuffix(RunResult(a))]
    /\ pc' = [pc EXCEPT ![G(a)] = "run_insert"]
    /\ UNCHANGED <<users, catalog, seen, nextId, clock, maps, cur, disk, loc, gone, requests, restarts>>

\* a slip: the key of the execution submitted last
RunKeyLatest(a) == nextId - 1

\* the key runCommand stores its record under: execution.ID
RunKey(a) == heap[a].ID

\* a slip: line 97 left out
RunInsertUnsaved(a) ==
    /\ pc[G(a)] = "run_insert"
    /\ maps' = [maps EXCEPT ![cur] = MapAssign(@, RunKey(a), a)]
    /\ pc' = [pc EXCEPT ![G(a)] = "done"]
    /\ UNCHANGED <<users, catalog, seen, nextId, clock, heap, cur, disk, loc, gone, requests, restarts>>

\* line 96
RunInsert(a) ==
    /\ pc[G(a)] = "run_insert"
    /\ maps' = [maps EXCEPT ![cur] = MapAssign(@, RunKey(a), a)]
    /\ pc' = [pc EXCEPT ![G(a)] = "save_call"]
    /\ UNCHANGED <<users, catalog, seen, nextId, clock, heap, cur, disk, loc, gone, requests, restarts>>

\* ------------------------------------------------------------ restart
\* LoadExecutions: the document of executions.json, empty when there is no file
LoadExecutions == IF disk.exists THEN disk.doc ELSE <<>>

\* a slip: a missing file is an error
LoadErrorOnMissing == IF ~disk.exists \/ disk.bad THEN "syntax" ELSE "nil"

\* the error LoadExecutions returns with it: json.Unmarshal's, for a file
\* that holds a cut-off document
LoadError == IF disk.exists /\ disk.bad THEN "syntax" ELSE "nil"

\* NewExecutor, lines 21-24: the map the Executor starts with
Loaded == IF LoadError # "nil" THEN EmptyMap ELSE LoadExecutions

\* a slip: a record loaded as running is marked failed
RestartMarkingStale ==
    /\ restarts < MaxRestart
    /\ restarts' = restarts + 1
    /\ heap' = [a \in Addrs |-> IF a \in DOMAIN Loaded
                                THEN [UnmarshalExecution(Loaded[a]) EXCEPT !.Status = "failed"]
                                ELSE NoExecution]
    /\ maps' = <<[k \in DOMAIN Loaded |-> k]>>
    /\ cur' = 1
    /\ pc' = [ag \in Agents |-> IF ag \in Callers THEN "idle"
                                ELSE IF pc[ag] = "unborn" THEN "unborn" ELSE "dead"]
    /\ loc' = [ag \in Agents |-> IdleFrame]
    /\ catalog' = [objs |-> catalog.file, keys |-> DOMAIN catalog.file,
                   file |-> catalog.file]
    /\ users' = [users EXCEPT !.mem = users.file]
    /\ UNCHANGED <<users, seen, nextId, clock, disk, gone, requests>>

\* The process ends, in any state, and is started again: NewExecutor loads the
\* records; no goroutine and no child process of the old process is left.
Restart ==
    /\ restarts < MaxRestart
    /\ restarts' = restarts + 1
    /\ heap' = [a \in Addrs |-> IF a \in DOMAIN Loaded
                                THEN UnmarshalExecution(Loaded[a])
                                ELSE NoExecution]
    /\ maps' = <<[k \in DOMAIN Loaded |-> k]>>
    /\ cur' = 1
    /\ pc' = [ag \in Agents |-> IF ag \in Callers THEN "idle"
                                ELSE IF pc[ag] = "unborn" THEN "unborn" ELSE "dead"]
    /\ loc' = [ag \in Agents |-> IdleFrame]
    /\ catalog' = [objs |-> catalog.file, keys |-> DOMAIN catalog.file,
                   file |-> catalog.file]
    /\ users' = [users EXCEPT !.mem = users.file]
    /\ UNCHANGED <<users, seen, nextId, clock, disk, gone, requests>>

\* ------------------------------------------------------------ specification
Next ==
    \/ \E t \in Callers, s \in Submissions : ExecuteBuild(t, s)
    \/ \E t \in Callers : ExecuteInsert(t)
    \/ \E t \in Callers : ExecuteGo(t)
    \/ \E ag \in Agents : SaveCall(ag)
    \/ \E ag \in Agents : SaveWrite(ag)
    \/ \E t \in Callers, id \in Addrs : GetExecution(t, id)
    \/ \E t \in Callers : GetAllExecutions(t)
    \/ \E t \in Callers, id \in Addrs : DeleteCheck(t, id)
    \/ \E t \in Callers : DeleteWrite(t)
    \/ \E t \in Callers : ClearAssign(t)
    \/ \E t \in Callers : Respond(t)
    \/ \E a \in Addrs : CmdRun(a)
    \/ \E a \in Addrs : SetOutput(a)
    \/ \E a \in Addrs : SetStatus(a)
    \/ \E a \in Addrs : SetExitCode(a)
    \/ \E a \in Addrs : AppendError(a)
    \/ \E a \in Addrs : RunInsert(a)
    \/ Restart

Spec == Init /\ [][Next]_vars

\* ------------------------------------------------------------ what the claims speak of
\* the process the record at a was submitted for
OwnProcess(a) == Sh(heap[a].Workdir, heap[a].Command)

\* the output runCommand leaves in the record at a
FinalOutput(a) ==
    CombineOutput(OwnProcess(a).stdout, OwnProcess(a).stderr)
        \o (IF OwnProcess(a).err = "start" THEN "\nError: " \o OwnProcess(a).msg ELSE "")

FinalExitCode(a) ==
    IF OwnProcess(a).err = "nil" THEN 0
    ELSE IF OwnProcess(a).err = "exit" THEN OwnProcess(a).code ELSE 1

\* a record value carries everything its completion writes
CarriesFinal(e) ==
    /\ e.Output = CombineOutput(Sh(e.Workdir, e.Command).stdout, Sh(e.Workdir, e.Command).stderr)
                    \o (IF Sh(e.Workdir, e.Command).err = "start"
                        THEN "\nError: " \o Sh(e.Workdir, e.Command).msg ELSE "")
    /\ e.ExitCode = (IF Sh(e.Workdir, e.Command).err = "nil" THEN 0
                     ELSE IF Sh(e.Workdir, e.Command).err = "exit"
                     THEN Sh(e.Workdir, e.Command).code ELSE 1)
    /\ e.EndedAt # ZeroTime
    /\ e.Duration # ""

\* the records a caller's response is written from
ResponseReads(t) ==
    IF pc[t] # "respond" THEN {}
    ELSE {loc[t].ret[i] : i \in DOMAIN loc[t].ret}

Valid(e) == ValidateCommand(e.Workdir, e.Command) = "nil"

\* C1 (as claimed): whatever a reader is handed -- the record behind the pointer
\* GetExecution or GetAllExecutions returned, or a record as SaveExecutions
\* serialized it -- a terminal status comes with the final output, exit code,
\* end time and duration.  (Stated for the records of well-formed submissions,
\* so that it does not rest on what C7 is about.)
C1_TerminalCarriesFinal ==
    /\ \A t \in Callers : \A a \in ResponseReads(t) :
          (loc[t].op \in {"Get", "GetAll"} /\ Valid(heap[a]) /\ heap[a].Status \in Terminal)
              => CarriesFinal(heap[a])
    /\ \A k \in DOMAIN disk.doc :
          (Valid(UnmarshalExecution(disk.doc[k])) /\ disk.doc[k].status \in Terminal)
              => CarriesFinal(UnmarshalExecution(disk.doc[k]))

\* the status GetExecution(id) shows, "absent" when it finds no record
Visible(id) == IF id \in DOMAIN maps[cur] THEN heap[maps[cur][id]].Status ELSE "absent"

\* C2 (as claimed): a status that GetExecution(id) shows as terminal is, in the
\* next state, the same terminal status (or the record is gone): it never turns
\* back to running nor into the other terminal status, whatever step is taken
\* (Execute, completion, Delete, Clear, restart).  (Stated for the records of
\* well-formed submissions.)
C2_StatusChangesOnce ==
    [][\A id \in Addrs :
          (Visible(id) \in Terminal /\ Valid(heap[maps[cur][id]]))
              => (Visible(id))' \in {Visible(id), "absent"}]_vars

\* The shared memory an agent's current statement accesses: <<object, mode>>,
\* the object a map ("map", address) or a record ("rec", address).
Accesses(ag) ==
    IF pc[ag] \in {"exec_insert", "delete_write", "run_insert"}
    THEN {<<"map", cur, "w">>}
    ELSE IF pc[ag] \in {"set_output", "set_status", "set_exit", "append_error"}
    THEN {<<"rec", loc[ag].id, "w">>}
    ELSE IF pc[ag] = "save_write"
    THEN {<<"map", loc[ag].m, "r">>}
            \cup {<<"rec", maps[loc[ag].m][k], "r">> : k \in DOMAIN maps[loc[ag].m]}
    ELSE IF ag \in Callers
    THEN {<<"rec", a, "r">> : a \in ResponseReads(ag)}
    ELSE {}

Conflict(x, y) == x[1] = y[1] /\ x[2] = y[2] /\ "w" \in {x[3], y[3]}

\* C3 (as claimed): no two agents are ever at statements of which one writes
\* the mapping, or a record in it, and the other reads or writes the same.
C3_MutualExclusion ==
    \A a, b \in Agents :
        a # b => \A x \in Accesses(a), y \in Accesses(b) : ~Conflict(x, y)

\* a DeleteExecution(id) that has removed id but not yet returned
DeleteInFlight(id) == \E t \in Callers : loc[t].op = "Delete" /\ loc[t].id = id

ClearInFlight == \E t \in Callers : loc[t].op = "Clear"

\* C4 (as claimed): once DeleteExecution(id) has returned true, GetExecution(id)
\* finds no record.
C4_DeletedStaysDeleted ==
    \A id \in Addrs :
        (gone[id] = "deleted" /\ ~DeleteInFlight(id)) => id \notin DOMAIN maps[cur]

\* C5 (as claimed): once ClearExecutions has returned, the mapping holds none of
\* the records it held before the clear.
C5_ClearedStaysCleared ==
    \A id \in Addrs :
        (gone[id] = "cleared" /\ ~ClearInFlight) => id \notin DOMAIN maps[cur]

\* C6 (as claimed): the record Execute returned has status running when the
\* handler writes execution.Status into its response.  (Stated for well-formed
\* submissions.)
C6_SubmitReportsRunning ==
    \A t \in Callers :
        (pc[t] = "respond" /\ loc[t].op = "Execute" /\ Valid(heap[loc[t].ret[1]]))
            => heap[loc[t].ret[1]].Status = "running"

\* C7 (as claimed): Execute creates no record for a workdir or command that is
\* empty after trimming: no such record is in the mapping or in the durable
\* state, and no process is launched for one.
C7_NoRecordForInvalidInput ==
    /\ \A k \in DOMAIN maps[cur] : Valid(heap[maps[cur][k]])
    /\ \A k \in DOMAIN disk.doc : Valid(UnmarshalExecution(disk.doc[k]))
    /\ \A a \in Addrs : pc[G(a)] \notin {"unborn", "dead"} => Valid(heap[a])

\* ------------------------------------------------------------ completion
\* runCommand has written everything it writes into its record
Written(a) == pc[G(a)] \in {"run_insert", "save_call", "save_write", "done"}

\* runCommand's steps once cmd.Run() has returned
Complete(a) ==
    \/ SetOutput(a) \/ SetStatus(a) \/ SetExitCode(a) \/ AppendError(a)
    \/ RunInsert(a) \/ SaveCall(G(a)) \/ SaveWrite(G(a))

\* The Go scheduler runs every runnable goroutine, and sync.Mutex hands a
\* waiting Lock the mutex once it has waited for 1 ms (starvation mode):
\* a runCommand whose child has ended goes on to its return.  Nothing is
\* assumed of the child itself (CmdRun), of requests or of restarts.
\* The runs checked are those of at most LiveRequests requests.
Within == requests < LiveRequests

NextLive ==
    \/ \E t \in Callers, s \in Submissions : Within /\ ExecuteBuild(t, s)
    \/ \E t \in Callers : ExecuteInsert(t)
    \/ \E t \in Callers : ExecuteGo(t)
    \/ \E ag \in Agents : SaveCall(ag)
    \/ \E ag \in Agents : SaveWrite(ag)
    \/ \E t \in Callers, id \in Addrs : Within /\ GetExecution(t, id)
    \/ \E t \in Callers : Within /\ GetAllExecutions(t)
    \/ \E t \in Callers, id \in Addrs : Within /\ DeleteCheck(t, id)
    \/ \E t \in Callers : DeleteWrite(t)
    \/ \E t \in Callers : Within /\ ClearAssign(t)
    \/ \E t \in Callers : Respond(t)
    \/ \E a \in Addrs : CmdRun(a)
    \/ \E a \in Addrs : SetOutput(a)
    \/ \E a \in Addrs : SetStatus(a)
    \/ \E a \in Addrs : SetExitCode(a)
    \/ \E a \in Addrs : AppendError(a)
    \/ \E a \in Addrs : RunInsert(a)
    \/ Restart

LiveSpec ==
    Init /\ [][NextLive]_vars /\ \A a \in Addrs : WF_vars(Complete(a))

\* C8: once the child of a submitted execution has ended (cmd.Run has
\* returned), the record in memory eventually has a terminal status and
\* runCommand eventually completes a save whose document holds the record with
\* that terminal status -- unless the record was deleted or cleared, or the
\* process was restarted, meanwhile.
C8_CompletionIsSaved ==
    \A a \in Addrs :
        (pc[G(a)] = "set_output") ~>
            \/ pc[G(a)] = "dead"
            \/ /\ heap[a].Status \in Terminal
               /\ \/ gone[a] # ""
                  \/ /\ pc[G(a)] = "done"
                     /\ a \in DOMAIN disk.doc
                     /\ disk.doc[a].status = heap[a].Status

C8_Witness ==
    \E a \in Addrs :
        /\ pc[G(a)] = "done" /\ gone[a] = ""
        /\ a \in DOMAIN disk.doc /\ disk.doc[a].status = "failed"
        /\ heap[a].Status = "failed"

\* C9: the records have distinct identifiers, every key of every map leads to
\* the record carrying that identifier, and the status, output and exit code of
\* a record are decided by its own runCommand and its own process alone: they
\* are untouched until that runCommand writes them, whatever the other
\* executions do, and afterwards they are its own process's result.
C9_NoCrossContamination ==
    /\ \A a, b \in Addrs :
          (a # b /\ heap[a].ID # 0 /\ heap[b].ID # 0) => heap[a].ID # heap[b].ID
    /\ \A m \in DOMAIN maps : \A k \in DOMAIN maps[m] : heap[maps[m][k]].ID = k
    /\ \A a \in Addrs :
          /\ (heap[a].ID # 0 /\ pc[G(a)] \in {"unborn", "run", "set_output"})
                => (heap[a].Status = "running" /\ heap[a].Output = "" /\ heap[a].ExitCode = 0)
          /\ Written(a)
                => /\ heap[a].Status = (IF OwnProcess(a).err = "nil" THEN "success" ELSE "failed")
                   /\ heap[a].Output = FinalOutput(a)
                   /\ heap[a].ExitCode = FinalExitCode(a)

\* two executions submitted for different commands have both completed, each
\* in the mapping under its own key
C9_Witness ==
    \E a, b \in Addrs :
        /\ a # b /\ pc[G(a)] = "done" /\ pc[G(b)] = "done"
        /\ heap[a].Output # heap[b].Output
        /\ {a, b} \subseteq DOMAIN maps[cur]

\* C10: in a record whose runCommand has written its result, the status is
\* success exactly when the exit code is 0; a process that exited normally
\* leaves its real exit code and success for 0, failed otherwise.
C10_StatusMatchesExitCode ==
    \A a \in Addrs :
        Written(a) =>
            /\ heap[a].Status \in Terminal
            /\ heap[a].Status = "success" <=> heap[a].ExitCode = 0
            /\ OwnProcess(a).err \in {"nil", "exit"} => heap[a].ExitCode = OwnProcess(a).code
            /\ OwnProcess(a).err = "exit" => heap[a].Status = "failed"

\* an exit with code 7 and an exit with code 0 have both been recorded
C10_Witness ==
    \E a, b \in Addrs :
        /\ pc[G(a)] = "done" /\ heap[a].Status = "failed" /\ heap[a].ExitCode = 7
        /\ pc[G(b)] = "done" /\ heap[b].Status = "success" /\ heap[b].ExitCode = 0

\* ------------------------------------------------------------ a hostile host
\* The program on a host where writing executions.json may fail and where
\* commands may write anything; the runs are those of at most LiveRequests
\* requests.
NextFault ==
    \/ \E t \in Callers, s \in HostileSubmissions : Within /\ ExecuteBuild(t, s)
    \/ \E t \in Callers : ExecuteInsert(t)
    \/ \E t \in Callers : ExecuteGo(t)
    \/ \E ag \in Agents : SaveCall(ag)
    \/ \E ag \in Agents : SaveWrite(ag)
    \/ \E ag \in Agents : SaveFail(ag)
    \/ \E t \in Callers, id \in Addrs : Within /\ GetExecution(t, id)
    \/ \E t \in Callers : Within /\ GetAllExecutions(t)
    \/ \E t \in Callers, id \in Addrs : Within /\ DeleteCheck(t, id)
    \/ \E t \in Callers : DeleteWrite(t)
    \/ \E t \in Callers : Within /\ ClearAssign(t)
    \/ \E t \in Callers : Respond(t)
    \/ \E a \in Addrs : CmdRun(a)
    \/ \E a \in Addrs : SetOutput(a)
    \/ \E a \in Addrs : SetStatus(a)
    \/ \E a \in Addrs : SetExitCode(a)
    \/ \E a \in Addrs : AppendError(a)
    \/ \E a \in Addrs : RunInsert(a)
    \/ Restart

FaultSpec == Init /\ [][NextFault]_vars

\* ------------------------------------------------------------ launch failures, output
\* C11: when the process of an execution could not be started, the record its
\* runCommand leaves has status failed, exit code 1 and an output that is the
\* captured output followed by "\nError: " and the launch error; Execute has
\* returned the record, and no error, to the submitter.
C11_LaunchFailureIsRecorded ==
    /\ \A a \in Addrs :
          (Written(a) /\ OwnProcess(a).err = "start") =>
              /\ heap[a].Status = "failed"
              /\ heap[a].ExitCode = 1
              /\ heap[a].Output =
                    CombineOutput(OwnProcess(a).stdout, OwnProcess(a).stderr)
                        \o "\nError: " \o OwnProcess(a).msg
    /\ \A t \in Callers :
          (pc[t] = "respond" /\ loc[t].op = "Execute"
                /\ OwnProcess(loc[t].id).err = "start")
              => (loc[t].ok /\ loc[t].ret = <<loc[t].id>>)

\* a launch failure has been recorded and saved
C11_Witness ==
    \E a \in Addrs :
        /\ pc[G(a)] = "done" /\ OwnProcess(a).err = "start"
        /\ heap[a].Output = "\nError: chdir: no such file or directory"
        /\ heap[a].ExitCode = 1

\* the contents of the two streams the claims about the output are checked for
Streams == {"", "hello\n", "compiling\n", "link error\n"}

\* standard output, then standard error, one newline between two non-empty ones
Joined(o, e) == IF o # "" /\ e # "" THEN o \o "\n" \o e ELSE o \o e

\* C12: the combined output is all of standard output followed by all of
\* standard error, with one newline between them exactly when both are
\* non-empty -- for every pair of stream contents, and in the record of every
\* execution whose process was started and has ended.
C12_OutputOrder ==
    /\ \A o \in Streams, e \in Streams : CombineOutput(o, e) = Joined(o, e)
    /\ \A a \in Addrs :
          (Written(a) /\ OwnProcess(a).err # "start")
              => heap[a].Output = Joined(OwnProcess(a).stdout, OwnProcess(a).stderr)

\* a command that wrote to standard error only has completed, and one that
\* wrote to both streams
C12_Witness ==
    \E a, b \in Addrs :
        /\ Written(a) /\ OwnProcess(a).stdout = "" /\ OwnProcess(a).stderr # ""
        /\ heap[a].Output = "ls: /nope: No such file or directory\n"
        /\ Written(b) /\ heap[b].Output = "compiling\n\nlink error\n"

\* C13 (as claimed): a record a reader is handed with status running has empty
\* output, exit code 0, no end time and no duration.  (Stated for the records
\* of well-formed submissions.)
C13_RunningIsBlank ==
    \A t \in Callers : \A a \in ResponseReads(t) :
        (loc[t].op \in {"Get", "GetAll"} /\ Valid(heap[a]) /\ heap[a].Status = "running")
            => /\ heap[a].Output = "" /\ heap[a].ExitCode = 0
               /\ heap[a].EndedAt = ZeroTime /\ heap[a].Duration = ""

\* ------------------------------------------------------------ failing saves
\* the step in which a SaveExecutions called by ag returns, with an error
SaveFails(ag) == pc[ag] = "save_write" /\ pc'[ag] # "save_write" /\ loc'[ag].err # "nil"

\* ... and without one
SaveSucceeds(ag) ==
    /\ pc[ag] = "save_write" /\ pc'[ag] # "save_write" /\ loc'[ag].err = "nil"
    /\ restarts' = restarts

\* C14 (as claimed): a handler whose Execute, DeleteExecution or ClearExecutions
\* called a SaveExecutions that returned an error does not answer with success.
C14_SaveFailureIsReported ==
    \A t \in Callers :
        (pc[t] = "respond" /\ loc[t].op \in {"Execute", "Delete", "Clear"}
            /\ loc[t].err # "nil") => ResponseStatus(t) # 200

\* C15 (as claimed): a SaveExecutions that returns an error leaves the mapping
\* and the records in memory as they are (the mutation stays) and leaves the
\* durable state as it was: a load returns the records of the last snapshot
\* saved.
C15_FailedSaveChangesNothing ==
    [][\A ag \in Agents :
          SaveFails(ag) => (maps' = maps /\ cur' = cur /\ heap' = heap /\ Loaded' = Loaded)]_vars

\* the agent has changed the mapping, or a record in it, and the
\* SaveExecutions that follows has not returned yet
Dirty(ag) ==
    \/ pc[ag] \in {"save_call", "save_write"}
    \/ pc[ag] \in {"set_status", "set_exit", "append_error", "run_insert"}

\* C16: a step that changes the mapping, or a record in it, leaves its agent
\* before a call of SaveExecutions; the call is given e.executions, the whole
\* current mapping; and the agent goes on to return only through the write of
\* that save, failed or not (a restart apart).
C16_MutationIsFollowedBySave ==
    [][restarts' = restarts =>
        /\ (maps' # maps \/ cur' # cur
                \/ \E a \in Addrs : heap[a].ID # 0 /\ heap'[a] # heap[a])
              => \E ag \in Agents : pc'[ag] # pc[ag] /\ Dirty(ag)'
        /\ \A ag \in Agents :
              /\ (pc[ag] = "save_call" /\ pc'[ag] # "save_call")
                    => (pc'[ag] = "save_write" /\ loc'[ag].m = cur)
              /\ (Dirty(ag) /\ ~Dirty(ag)') => (SaveFails(ag) \/ SaveSucceeds(ag))]_vars

\* a DeleteExecution has removed its record and is in its save
C16_Witness ==
    \E t \in Callers :
        /\ pc[t] = "save_write" /\ loc[t].op = "Delete"
        /\ loc[t].id \notin DOMAIN maps[cur] /\ loc[t].m = cur
        /\ loc[t].id \in DOMAIN disk.doc

\* C17 (as claimed): right after a SaveExecutions(m) that returned no error, the
\* durable records are the records of m as they were in memory at the write:
\* the same ids, and every field with the same value.
C17_SaveReplacesWholesale ==
    [][\A ag \in Agents :
          SaveSucceeds(ag) =>
              /\ disk'.exists /\ ~disk'.bad
              /\ DOMAIN disk'.doc = DOMAIN maps[loc[ag].m]
              /\ \A k \in DOMAIN disk'.doc :
                    UnmarshalExecution(disk'.doc[k]) = heap[maps[loc[ag].m][k]]]_vars

\* C18: when NewExecutor runs, LoadExecutions returns the records persisted in
\* the file, each under its id; with no file, or an empty file, it returns an
\* empty mapping and no error; and the Executor starts with what was returned
\* (with an empty mapping, then).
C18_LoadReturnsPersisted ==
    [][restarts' # restarts =>
        /\ (~disk.exists \/ (disk.doc = <<>> /\ ~disk.bad))
              => (LoadExecutions = <<>> /\ LoadError = "nil" /\ maps'[cur'] = <<>>)
        /\ (disk.exists /\ ~disk.bad)
              => /\ LoadError = "nil"
                 /\ DOMAIN LoadExecutions = DOMAIN disk.doc
                 /\ DOMAIN maps'[cur'] = DOMAIN disk.doc
                 /\ \A k \in DOMAIN disk.doc :
                       /\ heap'[maps'[cur'][k]] = UnmarshalExecution(disk.doc[k])
                       /\ heap'[maps'[cur'][k]].ID = k]_vars

\* the process was restarted and started with a record of the file
C18_Witness ==
    /\ restarts = 1
    /\ \E a \in DOMAIN maps[cur] :
          /\ pc[G(a)] = "dead" /\ a \in DOMAIN disk.doc
          /\ heap[a] = UnmarshalExecution(disk.doc[a])
          /\ heap[a].Status \in Terminal

\* C19 (as claimed): a record, saved and loaded, has every field as before, and
\* saved again gives the same document -- an optional field that was absent
\* is absent.
C19_RoundTrip ==
    \A a \in Addrs :
        heap[a].ID # 0 =>
            /\ UnmarshalExecution(MarshalExecution(heap[a])) = heap[a]
            /\ MarshalExecution(UnmarshalExecution(MarshalExecution(heap[a])))
                  = MarshalExecution(heap[a])

\* C20: a record that was running when the process ended is loaded as
\* running by NewExecutor; the runCommand of a record of an earlier process is
\* never started again, and no step gives such a record another status.
C20_ReloadedStaysRunning ==
    [][\A a \in Addrs :
          /\ (restarts' # restarts /\ heap[a].ID # 0 /\ heap[a].Status = "running"
                    /\ a \in DOMAIN Loaded)
                => heap'[a].Status = "running"
          /\ pc[G(a)] = "dead" => pc'[G(a)] = "dead"
          /\ (pc[G(a)] = "dead" /\ heap[a].Status = "running")
                => heap'[a].Status = "running"]_vars

\* a reader is handed, after the restart, a record that was running before it
C20_Witness ==
    \E a \in Addrs, t \in Callers :
        /\ pc[G(a)] = "dead" /\ heap[a].Status = "running" /\ heap[a].ID = a
        /\ pc[t] = "respond" /\ loc[t].op = "Get" /\ loc[t].ret = <<a>>

\* ------------------------------------------------------------ listings
\* The server started with a file of up to MaxList records, started at any
\* times (equal ones too: time.Now() may read the same for two submissions),
\* and serves listings.
ListInit ==
    /\ nextId = MaxList + 1
    /\ clock = MaxList
    /\ \E S \in SUBSET (1..MaxList), st \in [1..MaxList -> 1..MaxList] :
          /\ heap = [a \in 1..MaxList |->
                       IF a \in S
                       THEN NewExecution(a, <<"/srv">>, <<"echo", " ", "hello">>,
                                         "", "", "alice", st[a])
                       ELSE NoExecution]
          /\ maps = <<[k \in S |-> k]>>
          /\ seen = S
    /\ cur = 1
    /\ disk = [exists |-> TRUE, doc |-> MarshalMap(1), bad |-> FALSE]
    /\ pc = [ag \in Agents |-> IF ag \in Callers THEN "idle" ELSE "unborn"]
    /\ loc = [ag \in Agents |-> IdleFrame]
    /\ gone = [a \in 1..MaxList |-> ""]
    /\ requests = 0
    /\ restarts = 0
    /\ catalog = [objs |-> SavedCommands, keys |-> DOMAIN SavedCommands,
                  file |-> SavedCommands]
    /\ users = StartUsers

ListNext ==
    \/ \E t \in Callers : GetAllExecutions(t)
    \/ \E t \in Callers, limit \in -1..MaxLimit : GetRecentExecutions(t, limit)
    \/ \E t \in Callers : Respond(t)

ListSpec == ListInit /\ [][ListNext]_vars

\* the records of the mapping
Records == {maps[cur][k] : k \in DOMAIN maps[cur]}

\* r holds distinct records, each started no earlier than the one after it
Descending(r) ==
    /\ \A i, j \in DOMAIN r : i # j => r[i] # r[j]
    /\ \A i \in DOMAIN r :
          (i + 1) \in DOMAIN r => ~(heap[r[i]].StartedAt < heap[r[i + 1]].StartedAt)

\* C23: what GetAllExecutions returns holds every record of the mapping once,
\* and no element was started before the element that follows it.
C23_ListingIsSorted ==
    \A t \in Callers :
        (pc[t] = "respond" /\ loc[t].op = "GetAll") =>
            /\ Len(loc[t].ret) = Cardinality(Records)
            /\ {loc[t].ret[i] : i \in DOMAIN loc[t].ret} = Records
            /\ Descending(loc[t].ret)

\* three records started at three times, listed newest first
C23_Witness ==
    \E t \in Callers :
        /\ pc[t] = "respond" /\ loc[t].op = "GetAll" /\ loc[t].ret = <<2, 3, 1>>
        /\ heap[2].StartedAt = 3 /\ heap[3].StartedAt = 2 /\ heap[1].StartedAt = 1

\* the smaller of two numbers
Min(x, y) == IF x <= y THEN x ELSE y

\* C24: GetRecentExecutions(limit), for a limit of 0 or more, returns
\* min(limit, number of records) distinct records of the mapping, newest
\* first, and none of the records it leaves out was started after one it
\* returns.
C24_RecentIsPrefix ==
    \A t \in Callers :
        (pc[t] = "respond" /\ loc[t].op = "GetRecent" /\ loc[t].limit >= 0) =>
            /\ loc[t].err = "nil"
            /\ Len(loc[t].ret) = Min(loc[t].limit, Cardinality(Records))
            /\ {loc[t].ret[i] : i \in DOMAIN loc[t].ret} \subseteq Records
            /\ Descending(loc[t].ret)
            /\ \A a \in Records \ {loc[t].ret[i] : i \in DOMAIN loc[t].ret} :
                  \A i \in DOMAIN loc[t].ret :
                      ~(heap[loc[t].ret[i]].StartedAt < heap[a].StartedAt)

\* the two newest of three records were asked for, and returned
C24_Witness ==
    \E t \in Callers :
        /\ pc[t] = "respond" /\ loc[t].op = "GetRecent" /\ loc[t].limit = 2
        /\ Cardinality(Records) = 3 /\ loc[t].ret = <<1, 3>>
        /\ heap[1].StartedAt = 3 /\ heap[3].StartedAt = 2 /\ heap[2].StartedAt = 1

\* C25 (as claimed): two calls of GetAllExecutions on the same records return the
\* same sequence.
C25_ListingIsDeterministic ==
    \A t, u \in Callers :
        (pc[t] = "respond" /\ loc[t].op = "GetAll"
            /\ pc[u] = "respond" /\ loc[u].op = "GetAll") => loc[t].ret = loc[u].ret

\* ------------------------------------------------------------ frames and order
\* C21: as long as a record exists, its ID, Workdir, Command and StartedAt are
\* those Execute gave it, whatever step is taken (completion, other
\* submissions, deletes, clears, saves, a restart that loads it again).
C21_IdentityIsImmutable ==
    [][\A a \in Addrs :
          (heap[a].ID # 0 /\ heap'[a].ID # 0) =>
              /\ heap'[a].ID = heap[a].ID
              /\ heap'[a].Workdir = heap[a].Workdir
              /\ heap'[a].Command = heap[a].Command
              /\ heap'[a].StartedAt = heap[a].StartedAt]_vars

\* a record that has completed, was saved and was loaded again by a restart
C21_Witness ==
    \E a \in Addrs :
        /\ pc[G(a)] = "dead" /\ heap[a].ID = a /\ heap[a].Status \in Terminal
        /\ heap[a].EndedAt > heap[a].StartedAt /\ heap[a].Workdir = <<"/srv">>

\* C26: DeleteExecution of an id that is not in the mapping returns false and
\* GetExecution of such an id returns no record; neither changes the mapping,
\* a record or the file, and the handler answers 404 without a save.
C26_UnknownIdChangesNothing ==
    [][\A t \in Callers :
          /\ (pc[t] = "idle" /\ pc'[t] # "idle" /\ loc'[t].op \in {"Delete", "Get"}
                    /\ loc'[t].id \notin DOMAIN maps[cur])
                => /\ pc'[t] = "respond" /\ ~loc'[t].ok /\ loc'[t].ret = <<>>
                   /\ ResponseStatus(t)' = 404
                   /\ maps' = maps /\ cur' = cur /\ heap' = heap /\ disk' = disk
          /\ (pc[t] = "respond" /\ loc[t].op \in {"Delete", "Get"}
                    /\ ResponseStatus(t) = 404 /\ pc'[t] # pc[t] /\ restarts' = restarts)
                => /\ pc'[t] = "idle"
                   /\ maps' = maps /\ cur' = cur /\ heap' = heap /\ disk' = disk]_vars

\* DeleteExecution of an id that is not in the mapping, while the mapping and
\* the file hold another record
C26_Witness ==
    \E t \in Callers :
        /\ pc[t] = "respond" /\ loc[t].op = "Delete" /\ ~loc[t].ok
        /\ loc[t].id \notin DOMAIN maps[cur]
        /\ DOMAIN maps[cur] # {} /\ DOMAIN disk.doc = DOMAIN maps[cur]

\* C27: while the child of a record has not ended (nor failed to start), the
\* record has status running; a runCommand is started only for a record that
\* had none before, so none is started twice.
C27_NoTimeoutNoRetry ==
    [][\A a \in Addrs :
          /\ pc[G(a)] = "run" => heap[a].Status = "running"
          /\ (pc'[G(a)] = "run" /\ pc[G(a)] # "run") => pc[G(a)] = "unborn"
          /\ pc[G(a)] # "unborn" => pc'[G(a)] # "unborn"]_vars

\* a command has failed and its runCommand has returned, while the child of
\* another record is still running
C27_Witness ==
    \E a, b \in Addrs :
        /\ pc[G(a)] = "done" /\ heap[a].Status = "failed" /\ heap[a].ExitCode = 7
        /\ pc[G(b)] = "run" /\ heap[b].Status = "running"

\* a document of the file holds a record as its runCommand leaves it
FinalDoc(d) ==
    /\ d.status = (IF Sh(d.workdir, d.command).err = "nil" THEN "success" ELSE "failed")
    /\ d.exit_code = (IF Sh(d.workdir, d.command).err = "nil" THEN 0
                       ELSE IF Sh(d.workdir, d.command).err = "exit"
                       THEN Sh(d.workdir, d.command).code ELSE 1)
    /\ d.ended_at # ZeroTime /\ "duration" \in DOMAIN d

\* C28 (as claimed): a runCommand is started by an Execute that has inserted the
\* record and has been through its save, and the first time the file holds a
\* record it holds it with status running or as its runCommand leaves it.
\* (Stated for the records of well-formed submissions.)
C28_FirstAppearance ==
    [][\A a \in Addrs :
          /\ (pc[G(a)] = "unborn" /\ pc'[G(a)] = "run")
                => \E t \in Callers : pc[t] = "exec_go" /\ loc[t].id = a
          /\ (a \notin seen /\ a \in seen' /\ Valid(heap[a]))
                => (disk'.doc[a].status = "running" \/ FinalDoc(disk'.doc[a]))]_vars

\* C29 (as claimed): when no operation is between its change of the mapping, or
\* of a record, and the end of its save, and no save has failed, a load of the
\* file returns the records of the mapping as they are in memory.
C29_QuiescentMeansSaved ==
    (\A ag \in Agents : ~Dirty(ag) /\ loc[ag].err = "nil")
        => LoadExecutions = MarshalMap(cur)

\* ------------------------------------------------------------ runs of saved commands
\* The server with its saved commands: they are run, updated and deleted, by
\* at most LiveRequests requests.
CatalogNext ==
    \/ \E t \in Callers, c \in CommandIDs : Within /\ ExecuteCommandLookup(t, c)
    \/ \E t \in Callers : ExecuteCommandReadWorkdir(t)
    \/ \E t \in Callers : ExecuteCommandReadCommand(t)
    \/ \E t \in Callers : ExecuteCommandCall(t)
    \/ \E t \in Callers, c \in CommandIDs, u \in Updates : Within /\ UpdateCommandCheck(t, c, u)
    \/ \E t \in Callers : UpdateWriteName(t)
    \/ \E t \in Callers : UpdateWriteWorkdir(t)
    \/ \E t \in Callers : UpdateWriteCommand(t)
    \/ \E t \in Callers, c \in CommandIDs : Within /\ DeleteCommandCheck(t, c)
    \/ \E t \in Callers : DeleteCommandWrite(t)
    \/ \E t \in Callers : SaveCommands(t)
    \/ \E t \in Callers : ExecuteInsert(t)
    \/ \E t \in Callers : ExecuteGo(t)
    \/ \E ag \in Agents : SaveCall(ag)
    \/ \E ag \in Agents : SaveWrite(ag)
    \/ \E t \in Callers : Respond(t)
    \/ \E a \in Addrs : CmdRun(a)
    \/ \E a \in Addrs : SetOutput(a)
    \/ \E a \in Addrs : SetStatus(a)
    \/ \E a \in Addrs : SetExitCode(a)
    \/ \E a \in Addrs : AppendError(a)
    \/ \E a \in Addrs : RunInsert(a)

CatalogSpec == Init /\ [][CatalogNext]_vars

\* C22: the record of a run of a saved command is built from the command's id
\* and the name, workdir and command the handler read from it; and no step --
\* an update or the deletion of the saved command among them -- changes the
\* CommandID, Name, Workdir or Command of a record that exists.
C22_RecordIsSnapshot ==
    [][\A a \in Addrs :
          /\ heap[a].ID # 0 =>
                /\ heap'[a].CommandID = heap[a].CommandID
                /\ heap'[a].Name = heap[a].Name
                /\ heap'[a].Workdir = heap[a].Workdir
                /\ heap'[a].Command = heap[a].Command
          /\ (heap[a].ID = 0 /\ heap'[a].ID # 0) =>
                \E t \in Callers :
                    /\ pc[t] = "cmd_read_name"
                    /\ heap'[a].CommandID = loc[t].args.commandID
                    /\ heap'[a].Name = catalog.objs[heap'[a].CommandID].Name
                    /\ heap'[a].Workdir = loc[t].args.workdir
                    /\ heap'[a].Command = loc[t].args.command]_vars

\* the saved command was run and then updated: the record holds the old
\* name, workdir and command
C22_Witness ==
    \E a \in Addrs :
        /\ heap[a].CommandID = "c1" /\ heap[a].Name = "deploy"
        /\ heap[a].Workdir = <<"/srv">> /\ heap[a].Command = <<"echo", " ", "hello">>
        /\ catalog.objs["c1"].Name = "release"
        /\ catalog.objs["c1"].Command = <<"build", ";", "exit", " ", "7">>
        /\ \A t \in Callers : pc[t] = "idle"

\* the name, workdir and command a saved command has held together
Versions(c) ==
    {<<SavedCommands[c].Name, SavedCommands[c].Workdir, SavedCommands[c].Command>>}
        \cup {<<u.commandName, u.workdir, u.command>> :
                 u \in {v \in Updates : v.commandName # ""
                                           /\ ValidateCommand(v.workdir, v.command) = "nil"}}

\* C30 (as claimed): the record of a run of a saved command holds a name, a
\* workdir and a command that the saved command held together: all old or all
\* new.
C30_RunSeesOneVersion ==
    \A a \in Addrs :
        (heap[a].ID # 0 /\ heap[a].CommandID # "")
            => <<heap[a].Name, heap[a].Workdir, heap[a].Command>>
                   \in Versions(heap[a].CommandID)

\* ------------------------------------------------------------ the HTTP surface
\* The server with the handlers that create records and the handlers that
\* create, update and delete the saved commands they read, serving at most
\* LiveRequests requests.
HttpNext ==
    \/ \E t \in Callers, s \in Submissions : Within /\ ExecuteHandler(t, s)
    \/ \E t \in Callers, u \in Updates : Within /\ CreateCommandCheck(t, u)
    \/ \E t \in Callers : CreateCommandWrite(t)
    \/ \E t \in Callers, c \in CommandIDs \cup {NewCommandID, UnknownCommandID} :
          Within /\ ExecuteCommandLookup(t, c)
    \/ \E t \in Callers : ExecuteCommandReadWorkdir(t)
    \/ \E t \in Callers : ExecuteCommandReadCommand(t)
    \/ \E t \in Callers : ExecuteCommandCall(t)
    \/ \E t \in Callers, c \in CommandIDs \cup {NewCommandID, UnknownCommandID}, u \in Updates :
          Within /\ UpdateCommandCheck(t, c, u)
    \/ \E t \in Callers : UpdateWriteName(t)
    \/ \E t \in Callers : UpdateWriteWorkdir(t)
    \/ \E t \in Callers : UpdateWriteCommand(t)
    \/ \E t \in Callers, c \in CommandIDs \cup {NewCommandID, UnknownCommandID} :
          Within /\ DeleteCommandCheck(t, c)
    \/ \E t \in Callers : DeleteCommandWrite(t)
    \/ \E t \in Callers : SaveCommands(t)
    \/ \E t \in Callers : ExecuteInsert(t)
    \/ \E t \in Callers : ExecuteGo(t)
    \/ \E ag \in Agents : SaveCall(ag)
    \/ \E ag \in Agents : SaveWrite(ag)
    \/ \E t \in Callers : Respond(t)
    \/ \E a \in Addrs : CmdRun(a)
    \/ \E a \in Addrs : SetOutput(a)
    \/ \E a \in Addrs : SetStatus(a)
    \/ \E a \in Addrs : SetExitCode(a)
    \/ \E a \in Addrs : AppendError(a)
    \/ \E a \in Addrs : RunInsert(a)

HttpSpec == Init /\ [][HttpNext]_vars

\* C31: every record created through a handler has a workdir and a command
\* that are not blank: the body ExecuteHandler validated, or the fields of a
\* saved command, which CreateCommandHandler or UpdateCommandHandler
\* validated before they stored them.
C31_RecordsAreNotBlank ==
    \A a \in Addrs :
        heap[a].ID # 0 =>
            /\ TrimSpace(heap[a].Workdir) # <<>>
            /\ TrimSpace(heap[a].Command) # <<>>

\* a command was created through CreateCommandHandler and run
C31_Witness ==
    \E a \in Addrs :
        /\ heap[a].ID # 0
        /\ heap[a].CommandID = NewCommandID
        /\ heap[a].Status \in Terminal

\* C32: ExecuteCommandHandler goes on to read a command only if the catalog
\* holds the id; a request it answers with 404 changes no record, no mapping,
\* no file, no saved command and starts no goroutine, from its first step to
\* its answer.
C32_UnknownCommandIsRefused ==
    [][\A t \in Callers :
          /\ (pc[t] = "idle" /\ loc'[t].op = "ExecuteCommand" /\ pc'[t] # "respond")
                => loc'[t].args.commandID \in catalog.keys
          /\ (/\ loc'[t].op = "ExecuteCommand" /\ loc'[t].code = 404 /\ pc[t] = "idle")
                => /\ pc'[t] = "respond"
                   /\ ResponseStatus(t)' = 404
                   /\ UNCHANGED <<heap, maps, cur, disk, nextId, catalog, seen, users>>
                   /\ \A a \in Addrs : pc'[G(a)] = pc[G(a)]
          /\ (/\ loc[t].op = "ExecuteCommand" /\ loc[t].code = 404 /\ pc'[t] # pc[t])
                => /\ pc[t] = "respond" /\ pc'[t] = "idle"
                   /\ UNCHANGED <<heap, maps, cur, disk, nextId, catalog, seen, users>>
                   /\ \A a \in Addrs : pc'[G(a)] = pc[G(a)]]_vars

\* a command that was deleted is asked to run
C32_Witness ==
    \E t \in Callers :
        /\ pc[t] = "respond" /\ loc[t].op = "ExecuteCommand" /\ loc[t].code = 404
        /\ "c1" \notin catalog.keys

\* ------------------------------------------------------------ deletions
\* The server started with a file of up to MaxList records and serves reads
\* and deletions of single records.
StoreNext ==
    \/ \E t \in Callers, id \in 1..MaxList : DeleteCheck(t, id)
    \/ \E t \in Callers : DeleteWrite(t)
    \/ \E t \in Callers : SaveCall(t)
    \/ \E t \in Callers : SaveWrite(t)
    \/ \E t \in Callers, id \in 1..MaxList : GetExecution(t, id)
    \/ \E t \in Callers : Respond(t)

StoreSpec == ListInit /\ [][StoreNext]_vars

\* C33: the step of DeleteExecution(id) that deletes takes id out of the
\* mapping and nothing else: every other key stays and maps to the record it
\* mapped to, no key is added, no field of any record changes, and where the
\* mapping held id it holds exactly one record less.
C33_DeleteRemovesExactlyOne ==
    [][\A t \in Callers :
          (pc[t] = "delete_write" /\ pc'[t] # "delete_write") =>
              /\ loc[t].id \notin DOMAIN maps'[cur']
              /\ DOMAIN maps'[cur'] \subseteq DOMAIN maps[cur]
              /\ \A k \in DOMAIN maps[cur] \ {loc[t].id} :
                    k \in DOMAIN maps'[cur'] /\ maps'[cur'][k] = maps[cur][k]
              /\ heap' = heap
              /\ loc[t].id \in DOMAIN maps[cur] =>
                    Cardinality(DOMAIN maps'[cur']) = Cardinality(DOMAIN maps[cur]) - 1]_vars

\* one of three records was deleted and the other two are in the mapping
C33_Witness ==
    \E t \in Callers :
        /\ pc[t] = "save_call" /\ loc[t].op = "Delete"
        /\ loc[t].id \notin DOMAIN maps[cur]
        /\ Cardinality(DOMAIN maps[cur]) = MaxList - 1

\* C37 (as claimed): GetRecentExecutions(limit) returns for every limit, a
\* negative one too, and returns at most max(limit, 0) records.
C37_RecentReturnsForEveryLimit ==
    \A t \in Callers :
        (pc[t] = "respond" /\ loc[t].op = "GetRecent") =>
            /\ loc[t].err # "panic"
            /\ Len(loc[t].ret) <= IF loc[t].limit >= 0 THEN loc[t].limit ELSE 0

\* ------------------------------------------------------------ the users
\* The server started with users.json holding no user, one user or two, and
\* serves setup requests and, behind AuthMiddleware, the user handlers.
UserInit ==
    /\ nextId = 1
    /\ clock = 1
    /\ heap = [a \in Addrs |-> NoExecution]
    /\ maps = <<EmptyMap>>
    /\ cur = 1
    /\ disk = [exists |-> FALSE, doc |-> <<>>, bad |-> FALSE]
    /\ pc = [ag \in Agents |-> IF ag \in Callers THEN "idle" ELSE "unborn"]
    /\ loc = [ag \in Agents |-> IdleFrame]
    /\ gone = [a \in Addrs |-> ""]
    /\ requests = 0
    /\ restarts = 0
    /\ catalog = [objs |-> SavedCommands, keys |-> DOMAIN SavedCommands,
                  file |-> SavedCommands]
    /\ seen = {}
    /\ \E m \in {<<>>, StartUsers.mem,
                 (Bob :> <<"p", ":", "s", "s", "1">>) @@ StartUsers.mem} :
          users = [mem |-> m, file |-> m, setups |-> 0]

UserNext ==
    \/ \E t \in Callers, b \in UserBodies : SetupCheck(t, b)
    \/ \E t \in Callers, h \in Headers, next \in Protected : AuthSetupCheck(t, h, next)
    \/ \E t \in Callers : AuthCheck(t)
    \/ \E t \in Callers, b \in UserBodies : CreateUserCheck(t, b)
    \/ \E t \in Callers : UsersInsert(t)
    \/ \E t \in Callers, u \in Usernames : DeleteUserExists(t, u)
    \/ \E t \in Callers : DeleteUserLast(t)
    \/ \E t \in Callers : DeleteUserWrite(t)
    \/ \E t \in Callers : SaveUsers(t)
    \/ \E t \in Callers : ListUsersHandler(t)
    \/ \E t \in Callers : Respond(t)

UserSpec == UserInit /\ [][UserNext]_vars

\* C34 (as claimed): once the server has a user, no step leaves it without
\* one.
C34_UsersNeverEmptyAgain ==
    [][DOMAIN users.mem # {} => DOMAIN users'.mem # {}]_vars

\* C35 (as claimed): at most one setup request is answered with success.
C35_SetupSucceedsOnce == users.setups <= 1

\* C36: AuthMiddleware calls the handler behind it only for a header that is
\* the Basic encoding of the username of a user that exists, a colon and that
\* user's password; a request it does not let through is answered 401 and
\* changes no user, no saved command, no record and no file; and no handler
\* behind it takes a step for a request that was not let through.
C36_OnlyAuthenticatedRequestsPass ==
    [][\A t \in Callers :
          /\ (pc'[t] = "authed" /\ pc[t] # "authed") =>
                /\ pc[t] = "auth_check"
                /\ \E u \in DOMAIN users.mem :
                      /\ loc[t].header[1] = "Basic "
                      /\ loc[t].header[2] \in DOMAIN Base64
                      /\ Base64[loc[t].header[2]] = u \o <<":">> \o users.mem[u]
          /\ (pc[t] = "auth_check" /\ pc'[t] # "authed" /\ pc'[t] # "auth_check") =>
                /\ pc'[t] = "respond" /\ ResponseStatus(t)' = 401
                /\ UNCHANGED <<users, catalog, heap, maps, cur, disk, nextId>>
          /\ (pc[t] = "idle" /\ loc'[t].op \in Protected) =>
                /\ UNCHANGED <<users, catalog, heap, maps, cur, disk, nextId>>
                /\ IF DOMAIN users.mem = {}
                   THEN pc'[t] = "respond" /\ ResponseStatus(t)' = 401
                   ELSE pc'[t] = "auth_check"
          /\ (pc'[t] \in {"users_insert", "users_len"} /\ loc'[t].op \in Protected
              /\ pc[t] # pc'[t]) => pc[t] = "authed"]_vars

\* bob, whose password holds a colon, was let through, and another request
\* was answered 401
C36_Witness ==
    \E t \in Callers :
        /\ pc[t] = "authed" /\ loc[t].username = Bob
        /\ \E u \in Callers \ {t} : pc[u] = "respond" /\ loc[u].code = 401

====
